---------------------------- MODULE Spec2Model ----------------------------
(***************************************************************************)
(* Model of the Google Maps area scraper (gmaps_scraper.py) and of its     *)
(* input preprocessor (input_file_preprocessor.py).                        *)
(*                                                                         *)
(* Abstractions                                                            *)
(*  - A Python str is a sequence of one-character strings.                 *)
(*  - A coordinate is the tuple <<latitude, longitude>> (Python index 0 is *)
(*    TLA+ index 1).  Coordinates are whole degrees and the planet is flat *)
(*    with one kilometre per degree: geopy's geodesic distance between two *)
(*    points is the sum of the absolute coordinate differences, a step     *)
(*    south subtracts the distance from the latitude, a step east adds it  *)
(*    to the longitude.                                                    *)
(*  - geopy is not part of the repository.  For a point whose coordinates  *)
(*    are outside geopy's range the library either raises or normalises    *)
(*    the point, depending on its version: both outcomes are kept, and the *)
(*    distance of a normalised point is any value.                         *)
(*  - calls counts the places_nearby calls of the latest search (it is 0   *)
(*    as long as no call was issued at all); area_df is the number of      *)
(*    frames appended to the frame of the pass, df_temp the frame appended *)
(*    last.                                                                *)
(*  - searches is the list of the searches the pass has begun, passes the  *)
(*    list of the passes that have returned (the frames scrape_area holds).*)
(*  - A file name is a sequence of tokens: letters, "_", digits and the    *)
(*    extension ".csv" as one token.                                       *)
(*  - sqrt is an integer square root on fixed-point numbers with Scale     *)
(*    units per kilometre; every search radius is such a fixed-point value.*)
(***************************************************************************)
EXTENDS Integers, Sequences, FiniteSets, TLC

VARIABLES pc, row, self, err, walk, req, nodes, calls, df_temp, area_df,
          call, result, passes, searches, folder, save

vars == <<pc, row, self, err, walk, req, nodes, calls, df_temp, area_df,
          call, result, passes, searches, folder, save>>

-----------------------------------------------------------------------------
(* Bounds of the model *)

\* longest search-term string handed to search_terms_to_list
MaxLen == 5
\* largest distance and diameter handed to validate_amount_of_requests
MaxKm == 9
\* fixed-point units per kilometre
Scale == 100
\* largest diameter handed to the preprocessor's functions
MaxDiameter == 4
\* largest grid count of a node walk started on its own
MaxCount == 3

\* the most calls of save_csv in a row
MaxSaves == 4

-----------------------------------------------------------------------------
(* Values *)

None == "None"

Return(v) == [kind |-> "return", exc |-> "none", val |-> v]

Raise(e) == [kind |-> "raise", exc |-> e, val |-> None]

Abs(x) == IF x < 0 THEN -x ELSE x

\* the exceptions of the program, named by what they report
ErrRadius == "ValueError: diameter must be bigger than 0!"
ErrSearchTerms == "ValueError: You need to list the search terms for Google Maps"
ErrNotFloats == "Exception: Both coordinates must be floats"
ErrNoComma == "Exception: The two coordinates must be separated by a comma"
ErrLatitude == "ValueError: Latitude must be in between 90 and -90"
ErrLongitude == "ValueError: Longitude must be in between 180 and -180"
ErrCrossedLatitude == "Exception: lower right latitude higher than upper left"
ErrCrossedLongitude == "Exception: upper left longitude higher than upper right"
ErrTooSmall == "ValueError: The search field is too small/the radius to big"
ErrZeroDivision == "ZeroDivisionError"
ErrSubscript == "TypeError: object is not subscriptable"
ErrGeopy == "ValueError: geopy rejects the point"
ErrTooManyRequests == "Exception: API request unexpectedly exceeded 3 requests for one node"

-----------------------------------------------------------------------------
(* Python str operations *)

Whitespace == {" "}

RECURSIVE lstrip(_)
lstrip(s) ==
    IF s = <<>> THEN <<>>
    ELSE IF Head(s) \in Whitespace THEN lstrip(Tail(s))
    ELSE s

RECURSIVE rstrip(_)
rstrip(s) ==
    IF s = <<>> THEN <<>>
    ELSE IF s[Len(s)] \in Whitespace THEN rstrip(SubSeq(s, 1, Len(s) - 1))
    ELSE s

strip_left_only(s) == lstrip(s)

\* str.strip()
strip(s) == rstrip(lstrip(s))

\* str.split(","): the fields between the commas, empty fields included
RECURSIVE split(_)
split(s) ==
    IF \A i \in 1..Len(s) : s[i] # ","
    THEN <<s>>
    ELSE LET k == CHOOSE i \in 1..Len(s) :
                      s[i] = "," /\ \A j \in 1..(i - 1) : s[j] # ","
         IN  <<SubSeq(s, 1, k - 1)>> \o split(SubSeq(s, k + 1, Len(s)))

\* [f(x) for x in seq]
RECURSIVE MapStrip(_)
MapStrip(seq) ==
    IF seq = <<>> THEN <<>> ELSE <<strip(Head(seq))>> \o MapStrip(Tail(seq))

\* the non-empty entries, each kept once
RECURSIVE DropEmptyUnique(_)
DropEmptyUnique(seq) ==
    IF seq = <<>> THEN <<>>
    ELSE LET last == seq[Len(seq)]
             front == DropEmptyUnique(SubSeq(seq, 1, Len(seq) - 1))
         IN  IF last = <<>> \/ \E i \in 1..Len(front) : front[i] = last
             THEN front
             ELSE Append(front, last)

\* [x for x in seq if x]
RECURSIVE DropEmpty(_)
DropEmpty(seq) ==
    IF seq = <<>> THEN <<>>
    ELSE IF Head(seq) # <<>> THEN <<Head(seq)>> \o DropEmpty(Tail(seq))
    ELSE DropEmpty(Tail(seq))

-----------------------------------------------------------------------------
(* input_file_preprocessor.py *)

\* InputFilePreprocessor.__init__
InputFilePreprocessor(big_radius_km) == [diameter_km |-> big_radius_km * 2]

\* floor(sqrt(n)) for 0 <= n <= bound * bound
Isqrt(n, bound) == CHOOSE x \in 0..bound : x * x <= n /\ (x + 1) * (x + 1) > n

calculate_small_radius_negative_only(diameter_km) ==
    IF diameter_km < 0
    THEN Raise(ErrRadius)
    ELSE LET d == diameter_km * Scale
         IN  Return(Isqrt(2 * (d * d), 2 * d) - d)

calculate_small_radius(diameter_km) ==
    IF diameter_km <= 0
    THEN Raise(ErrRadius)
    ELSE LET d == diameter_km * Scale
         IN  Return(Isqrt(2 * (d * d), 2 * d) - d)

validate_coordinates_values_closed(coords) ==
    IF ~(90 >= coords[1] /\ coords[1] >= -90) THEN Raise(ErrLatitude)
    ELSE IF ~(180 >= coords[2] /\ coords[2] >= -180) THEN Raise(ErrLongitude)
    ELSE Return(None)

validate_coordinates_values(coords) ==
    IF ~(90 > coords[1] /\ coords[1] > -90) THEN Raise(ErrLatitude)
    ELSE IF ~(180 > coords[2] /\ coords[2] > -180) THEN Raise(ErrLongitude)
    ELSE Return(None)

validate_coordinates_position_values_only(upper_left_coords, lower_right_coords) ==
    IF validate_coordinates_values(upper_left_coords).kind = "raise"
    THEN validate_coordinates_values(upper_left_coords)
    ELSE IF validate_coordinates_values(lower_right_coords).kind = "raise"
    THEN validate_coordinates_values(lower_right_coords)
    ELSE Return(None)

validate_coordinates_position_latitude_only(upper_left_coords, lower_right_coords) ==
    IF validate_coordinates_values(upper_left_coords).kind = "raise"
    THEN validate_coordinates_values(upper_left_coords)
    ELSE IF validate_coordinates_values(lower_right_coords).kind = "raise"
    THEN validate_coordinates_values(lower_right_coords)
    ELSE IF lower_right_coords[1] > upper_left_coords[1]
    THEN Raise(ErrCrossedLatitude)
    ELSE Return(None)

validate_coordinates_position(upper_left_coords, lower_right_coords) ==
    IF validate_coordinates_values(upper_left_coords).kind = "raise"
    THEN validate_coordinates_values(upper_left_coords)
    ELSE IF validate_coordinates_values(lower_right_coords).kind = "raise"
    THEN validate_coordinates_values(lower_right_coords)
    ELSE IF lower_right_coords[1] > upper_left_coords[1]
    THEN Raise(ErrCrossedLatitude)
    ELSE IF upper_left_coords[2] > lower_right_coords[2]
    THEN Raise(ErrCrossedLongitude)
    ELSE Return(None)

_validate_search_terms(search_terms) ==
    IF strip(search_terms) = <<>> THEN Raise(ErrSearchTerms) ELSE Return(None)

search_terms_to_list(search_terms) ==
    IF _validate_search_terms(search_terms).kind = "raise"
    THEN _validate_search_terms(search_terms)
    ELSE Return(DropEmpty(MapStrip(split(search_terms))))

\* geodesic_distance / diameter is the rational <<geodesic_distance, diameter>>;
\* 2 > num/den
TwoGreaterThan(num, den) ==
    IF den > 0 THEN 2 * den > num ELSE 2 * den < num

validate_amount_of_requests_inclusive(geodesic_distance, diameter) ==
    IF diameter = 0 THEN Raise(ErrZeroDivision)
    ELSE IF TwoGreaterThan(geodesic_distance, diameter)
            \/ geodesic_distance = 2 * diameter
    THEN Raise(ErrTooSmall)
    ELSE Return(None)

validate_amount_of_requests(geodesic_distance, diameter) ==
    IF diameter = 0 THEN Raise(ErrZeroDivision)
    ELSE IF TwoGreaterThan(geodesic_distance, diameter) THEN Raise(ErrTooSmall)
    ELSE Return(None)

\* geopy accepts latitudes in [-90, 90] and normalises longitudes
GeopyLatitudeOk(point) == point[1] >= -90 /\ point[1] <= 90

GeopyExact(point) ==
    GeopyLatitudeOk(point) /\ point[2] >= -180 /\ point[2] <= 180

\* the outcomes of geopy.distance.geodesic(a, b).km
geodesic(a, b) ==
    IF GeopyExact(a) /\ GeopyExact(b)
    THEN {Return(Abs(a[1] - b[1]) + Abs(a[2] - b[2]))}
    ELSE {Return(km) : km \in 0..MaxKm}
         \cup (IF GeopyLatitudeOk(a) /\ GeopyLatitudeOk(b)
               THEN {} ELSE {Raise(ErrGeopy)})

\* floor(num / den) for den > 0
floor(num, den) == num \div den

\* calculate_amount_of_requests once the two distances area_width_km and
\* area_length_km are known (each an outcome of geodesic)
calculate_amount_of_requests_width_only(diameter_km, area_width_km, area_length_km) ==
    IF area_width_km.kind = "raise" THEN area_width_km
    ELSE IF area_length_km.kind = "raise" THEN area_length_km
    ELSE IF validate_amount_of_requests(area_width_km.val, diameter_km).kind = "raise"
    THEN validate_amount_of_requests(area_width_km.val, diameter_km)
    ELSE Return(<<floor(area_width_km.val, diameter_km),
                  floor(area_length_km.val, diameter_km)>>)

calculate_amount_of_requests(diameter_km, area_width_km, area_length_km) ==
    IF area_width_km.kind = "raise" THEN area_width_km
    ELSE IF area_length_km.kind = "raise" THEN area_length_km
    ELSE IF validate_amount_of_requests(area_width_km.val, diameter_km).kind = "raise"
    THEN validate_amount_of_requests(area_width_km.val, diameter_km)
    ELSE IF validate_amount_of_requests(area_length_km.val, diameter_km).kind = "raise"
    THEN validate_amount_of_requests(area_length_km.val, diameter_km)
    ELSE Return(<<floor(area_width_km.val, diameter_km),
                  floor(area_length_km.val, diameter_km)>>)

\* coords_to_tuple: a cell of the input sheet is the text of a pair, text
\* that literal_eval rejects with ValueError or with SyntaxError, or the text
\* of a single number (which literal_eval accepts)
coords_to_tuple(coords) ==
    IF coords.kind = "not_numeric" THEN Raise(ErrNotFloats)
    ELSE IF coords.kind = "syntax" THEN Raise(ErrNoComma)
    ELSE Return(coords.val)

\* whether the value literal_eval makes of the cell can be indexed
IsTuple(coords) == coords.kind = "pair"

-----------------------------------------------------------------------------
(* gmaps_scraper.py: geometry *)

add_km_to_latitude(previous_node, added_distance_km) ==
    previous_node[1] - added_distance_km

add_km_to_longitude(previous_node, added_distance_km) ==
    previous_node[2] + added_distance_km

get_longitude_in_iteration_from_start(start_longitude, node, diameter_km, column_number) ==
    IF column_number = 0 THEN start_longitude
    ELSE start_longitude + diameter_km

get_longitude_in_iteration(start_longitude, node, diameter_km, column_number) ==
    IF column_number = 0 THEN start_longitude
    ELSE add_km_to_longitude(node, diameter_km)

get_latitude_in_iteration(start_latitude, node, diameter_km, row_number) ==
    IF row_number = 0 THEN start_latitude
    ELSE add_km_to_latitude(node, diameter_km)

-----------------------------------------------------------------------------
(* gmaps_scraper.py: the state of one area row *)

NoSelf ==
    [area_block |-> None, country |-> None, big_radius_km |-> 0,
     diameter_km |-> 0, small_radius_km |-> 0, search_terms |-> <<>>,
     upper_left_coords |-> <<0, 0>>, lower_right_coords |-> <<0, 0>>,
     upper_right_coords |-> <<0, 0>>,
     amount_of_requests_per_row |-> 0, amount_of_requests_per_col |-> 0]

NoWalk ==
    [radius_type |-> None, radius_km |-> 0,
     start_latitude |-> 0, start_longitude |-> 0,
     latitude |-> 0, longitude |-> 0, scrape_node |-> <<0, 0>>,
     row_number |-> 0, column_number |-> 0]

NoResponse == [results |-> <<>>, next_page_token |-> None]

\* the arguments of the latest places_nearby call
NoParams ==
    [location |-> <<0, 0>>, keyword |-> <<>>, radius |-> 0, page_token |-> None]

NoReq ==
    [term_index |-> 0, request |-> NoResponse, next_page |-> None, i |-> 0,
     api_result_df |-> <<>>, params |-> NoParams]

\* the sub-folder of the exports: whether the directory exists, and its files
NoFolder == [exists |-> FALSE, files |-> {}]

\* the locals of save_csv, and the calls that have returned
NoSave == [caller |-> None, file_name |-> <<>>, i |-> 0, log |-> <<>>]

\* the outcomes of AreaScraper.__init__ for a row: the object, or the exception
AreaScraper_init(r) ==
    LET preprocessor == InputFilePreprocessor(r.big_radius_km)
        small == calculate_small_radius(preprocessor.diameter_km)
        terms == search_terms_to_list(r.search_terms_comma_separated)
        ul == coords_to_tuple(r.upper_left_coordinates)
        lr == coords_to_tuple(r.lower_right_coordinates)
    IN  IF small.kind = "raise" THEN {small}
        ELSE IF terms.kind = "raise" THEN {terms}
        ELSE IF ul.kind = "raise" THEN {ul}
        ELSE IF lr.kind = "raise" THEN {lr}
        ELSE IF ~IsTuple(r.upper_left_coordinates)
                \/ ~IsTuple(r.lower_right_coordinates)
        THEN {Raise(ErrSubscript)}
        ELSE LET ur == <<ul.val[1], lr.val[2]>>
             IN  { LET amount == calculate_amount_of_requests(
                                     preprocessor.diameter_km, w, l)
                   IN  IF amount.kind = "raise" THEN amount
                       ELSE Return(
                         [area_block |-> r.area_block,
                          country |-> r.country,
                          big_radius_km |-> r.big_radius_km,
                          diameter_km |-> r.big_radius_km * 2,
                          small_radius_km |-> small.val,
                          search_terms |-> terms.val,
                          upper_left_coords |-> ul.val,
                          lower_right_coords |-> lr.val,
                          upper_right_coords |-> ur,
                          amount_of_requests_per_row |-> amount.val[1],
                          amount_of_requests_per_col |-> amount.val[2]])
                   : w \in geodesic(ul.val, ur), l \in geodesic(lr.val, ur) }

Construct_box_first ==
    /\ pc = "start"
    /\ LET ul == coords_to_tuple(row.upper_left_coordinates)
           lr == coords_to_tuple(row.lower_right_coordinates)
           parsed == /\ ul.kind = "return"
                     /\ lr.kind = "return"
                     /\ IsTuple(row.upper_left_coordinates)
                     /\ IsTuple(row.lower_right_coordinates)
           valid == IF parsed
                    THEN validate_coordinates_position(ul.val, lr.val)
                    ELSE Return(None)
       IN  \E out \in (IF valid.kind = "raise" THEN {valid}
                       ELSE AreaScraper_init(row)) :
              IF out.kind = "raise"
              THEN /\ pc' = "failed"
                   /\ err' = out.exc
                   /\ self' = self
              ELSE /\ pc' = "constructed"
                   /\ err' = err
                   /\ self' = out.val
    /\ UNCHANGED <<row, walk, req, nodes, calls, df_temp, area_df, call, result,
                   passes, searches, folder, save>>

\* GoogleMapsScraper.run, one row: area_scraper = AreaScraper(..., row)
Construct ==
    /\ pc = "start"
    /\ \E out \in AreaScraper_init(row) :
          IF out.kind = "raise"
          THEN /\ pc' = "failed"
               /\ err' = out.exc
               /\ self' = self
          ELSE /\ pc' = "constructed"
               /\ err' = err
               /\ self' = out.val
    /\ UNCHANGED <<row, walk, req, nodes, calls, df_temp, area_df, call, result,
                   passes, searches, folder, save>>

start_offset_km_radius(radius_type) == self.big_radius_km

\* the distance of the start node of a pass from the upper left corner
start_offset_km(radius_type) ==
    IF radius_type = "big" THEN self.big_radius_km ELSE self.diameter_km

pass_radius_km_big(radius_type) == self.big_radius_km * Scale

\* the search radius of a pass
pass_radius_km(radius_type) ==
    IF radius_type = "big" THEN self.big_radius_km * Scale
    ELSE self.small_radius_km

\* the start of _scrape_single_radius: the validation, then the start node
\* and the radius of the pass; _iterate_through_nodes begins
_scrape_single_radius(radius_type) ==
    LET valid == validate_coordinates_position(self.upper_left_coords,
                                               self.lower_right_coords)
        offset == start_offset_km(radius_type)
        start_longitude == add_km_to_longitude(self.upper_left_coords, offset)
        start_latitude == add_km_to_latitude(self.upper_left_coords, offset)
        radius_km == pass_radius_km(radius_type)
    IN  IF valid.kind = "raise"
        THEN /\ pc' = "failed"
             /\ err' = valid.exc
             /\ walk' = walk
        ELSE /\ pc' = "walk_row"
             /\ err' = err
             /\ walk' = [radius_type |-> radius_type, radius_km |-> radius_km,
                         start_latitude |-> start_latitude,
                         start_longitude |-> start_longitude,
                         latitude |-> start_latitude,
                         longitude |-> start_longitude,
                         scrape_node |-> <<start_latitude, start_longitude>>,
                         row_number |-> 0, column_number |-> 0]

\* scrape_area: big_radius_df = self._scrape_single_radius("big")
ScrapeBig ==
    /\ pc = "constructed"
    /\ _scrape_single_radius("big")
    /\ nodes' = <<>>
    /\ searches' = <<>>
    /\ area_df' = 0
    /\ UNCHANGED <<row, self, req, calls, df_temp, call, result,
                   passes, folder, save>>

\* scrape_area: small_radius_df = self._scrape_single_radius("small")
ScrapeSmall ==
    /\ pc = "returned"
    /\ walk.radius_type = "big"
    /\ _scrape_single_radius("small")
    /\ nodes' = <<>>
    /\ searches' = <<>>
    /\ area_df' = 0
    /\ UNCHANGED <<row, self, req, calls, df_temp, call, result,
                   passes, folder, save>>


-----------------------------------------------------------------------------
(* gmaps_scraper.py: the node walk and the requests of a node *)

\* the page tokens the search collaborator may hand out: an opaque token and
\* two tokens that read like keys of a response
Tokens == {"CqQCF", "results", "next_page_token"}

\* the responses of gmaps.places_nearby for the page-th call of a search:
\* one place per page, with or without a next_page_token
places_nearby(page) ==
    {[results |-> <<[place |-> page]>>, next_page_token |-> t] :
        t \in Tokens \cup {None}}

\* the arguments _build_api_request hands to gmaps.places_nearby
_build_api_request(radius_km, location_node, search_term, page_token) ==
    [location |-> location_node, keyword |-> search_term,
     radius |-> radius_km * 1000, page_token |-> page_token]

\* request.keys()
keys(request) ==
    {"html_attributions", "results", "status"}
    \cup (IF request.next_page_token # None THEN {"next_page_token"} ELSE {})

current_search_term_first == self.search_terms[1]

\* for search_term in self.search_terms: the term of the current turn
current_search_term == self.search_terms[req.term_index + 1]

\* the columns _add_area_data_to_api_scrape adds to every row of a frame
RECURSIVE Tagged(_, _, _)
Tagged(df, search_term, node) ==
    IF df = <<>> THEN <<>>
    ELSE <<[place |-> Head(df).place,
            search_term |-> search_term,
            radius_size_km |-> walk.radius_km,
            lat_long |-> node,
            area_block |-> self.area_block,
            country |-> self.country]>>
         \o Tagged(Tail(df), search_term, node)

InRangeInclusive(index, stop) == index <= stop

\* for index in range(stop): whether the loop has a turn for index
InRange(index, stop) == index < stop

IterateRow_without_reset ==
    /\ pc = "walk_row"
    /\ InRange(walk.row_number, self.amount_of_requests_per_col)
    /\ walk' = [walk EXCEPT
                  !.latitude = get_latitude_in_iteration(
                                   walk.latitude, walk.scrape_node,
                                   self.diameter_km, walk.row_number),
                  !.column_number = 0]
    /\ pc' = "walk_col"
    /\ UNCHANGED <<row, self, err, req, nodes, calls, df_temp, area_df,
                   call, result,
                   passes, searches, folder, save>>

\* _iterate_through_nodes, outer loop: the next row begins
IterateRow ==
    /\ pc = "walk_row"
    /\ InRange(walk.row_number, self.amount_of_requests_per_col)
    /\ walk' = [walk EXCEPT
                  !.longitude = walk.start_longitude,
                  !.latitude = get_latitude_in_iteration(
                                   walk.latitude, walk.scrape_node,
                                   self.diameter_km, walk.row_number),
                  !.column_number = 0]
    /\ pc' = "walk_col"
    /\ UNCHANGED <<row, self, err, req, nodes, calls, df_temp, area_df,
                   call, result,
                   passes, searches, folder, save>>

\* _iterate_through_nodes, inner loop: the next node of the row
VisitNode ==
    /\ pc = "walk_col"
    /\ InRange(walk.column_number, self.amount_of_requests_per_row)
    /\ LET longitude == get_longitude_in_iteration(
                            walk.longitude, walk.scrape_node,
                            self.diameter_km, walk.column_number)
           scrape_node == <<walk.latitude, longitude>>
       IN  /\ walk' = [walk EXCEPT !.longitude = longitude,
                                   !.scrape_node = scrape_node]
           /\ nodes' = Append(nodes, scrape_node)
    /\ req' = [NoReq EXCEPT !.term_index = 0]
    /\ pc' = "walk_terms"
    /\ UNCHANGED <<row, self, err, calls, df_temp, area_df, call, result,
                   passes, searches, folder, save>>

\* _get_data_from_location_node: the first request of a search term
FirstRequest ==
    /\ pc = "walk_terms"
    /\ req.term_index < Len(self.search_terms)
    /\ \E request \in places_nearby(1) :
          req' = [req EXCEPT !.request = request,
                             !.next_page = request.next_page_token,
                             !.i = 1,
                             !.api_result_df = request.results,
                             !.params = _build_api_request(
                                            walk.radius_km, walk.scrape_node,
                                            current_search_term,
                                            None)]
    /\ searches' = Append(searches,
                          [node |-> walk.scrape_node,
                           search_term |-> current_search_term])
    /\ calls' = 1
    /\ pc' = "walk_pages"
    /\ UNCHANGED <<row, self, err, walk, nodes, df_temp, area_df, call, result,
                   passes, folder, save>>

ExceedsRequestLimitLate(i) == i > 4

\* if i > 3: raise
ExceedsRequestLimit(i) == i > 3

\* _get_data_from_location_node: one turn of the while loop
NextPageRequest ==
    /\ pc = "walk_pages"
    /\ req.next_page \in keys(req.request)
    /\ IF ExceedsRequestLimit(req.i + 1)
       THEN /\ req' = [req EXCEPT !.i = req.i + 1]
            /\ pc' = "failed"
            /\ err' = ErrTooManyRequests
            /\ calls' = calls
       ELSE /\ \E request \in places_nearby(req.i + 1) :
                  req' = [req EXCEPT
                            !.i = req.i + 1,
                            !.request = request,
                            !.api_result_df = req.api_result_df \o request.results,
                            !.params = _build_api_request(
                                           walk.radius_km, walk.scrape_node,
                                           current_search_term,
                                           req.next_page)]
            /\ pc' = pc
            /\ err' = err
            /\ calls' = calls + 1
    /\ UNCHANGED <<row, self, walk, nodes, df_temp, area_df, call, result,
                   passes, searches, folder, save>>

\* _get_data_from_location_node returns; _add_area_data_to_api_scrape tags the
\* frame and appends it to area_df
ReturnNodeData ==
    /\ pc = "walk_pages"
    /\ req.next_page \notin keys(req.request)
    /\ df_temp' = Tagged(req.api_result_df,
                         current_search_term,
                         walk.scrape_node)
    /\ area_df' = area_df + 1
    /\ req' = [NoReq EXCEPT !.term_index = req.term_index + 1]
    /\ pc' = "walk_terms"
    /\ UNCHANGED <<row, self, err, walk, nodes, calls, call, result,
                   passes, searches, folder, save>>

\* _add_area_data_to_api_scrape returns: every search term is done
NodeDone ==
    /\ pc = "walk_terms"
    /\ req.term_index >= Len(self.search_terms)
    /\ walk' = [walk EXCEPT !.column_number = walk.column_number + 1]
    /\ pc' = "walk_col"
    /\ UNCHANGED <<row, self, err, req, nodes, calls, df_temp, area_df,
                   call, result,
                   passes, searches, folder, save>>

\* _iterate_through_nodes: the inner loop is exhausted
RowDone ==
    /\ pc = "walk_col"
    /\ ~InRange(walk.column_number, self.amount_of_requests_per_row)
    /\ walk' = [walk EXCEPT !.row_number = walk.row_number + 1]
    /\ pc' = "walk_row"
    /\ UNCHANGED <<row, self, err, req, nodes, calls, df_temp, area_df,
                   call, result,
                   passes, searches, folder, save>>

\* _iterate_through_nodes returns area_df
WalkReturn ==
    /\ pc = "walk_row"
    /\ ~InRange(walk.row_number, self.amount_of_requests_per_col)
    /\ pc' = "returned"
    /\ passes' = Append(passes, [radius_type |-> walk.radius_type,
                                 nodes |-> nodes, area_df |-> area_df])
    /\ UNCHANGED <<row, self, err, walk, req, nodes, calls, df_temp, area_df,
                   call, result,
                   searches, folder, save>>

\* str(i) for the counter of save_csv
str(i) == <<"1", "2", "3", "4", "5", "6", "7", "8", "9">>[i]

\* \d+ : a run of digits
IsDigits(token) == token \in {str(i) : i \in 1..9}

\* re.sub(r"(_\d+)?\.csv", f"_{i}.csv", file_name): every match, from the
\* left, is replaced; a name is a sequence of tokens
RECURSIVE re_sub(_, _)
re_sub(file_name, i) ==
    IF file_name = <<>> THEN <<>>
    ELSE IF /\ Len(file_name) >= 3
            /\ file_name[1] = "_"
            /\ IsDigits(file_name[2])
            /\ file_name[3] = ".csv"
    THEN <<"_", str(i), ".csv">> \o re_sub(SubSeq(file_name, 4, Len(file_name)), i)
    ELSE IF file_name[1] = ".csv"
    THEN <<"_", str(i), ".csv">> \o re_sub(Tail(file_name), i)
    ELSE <<file_name[1]>> \o re_sub(Tail(file_name), i)

\* sub_folder="scrapes"
sub_folder == "scrapes"

\* file_path = f"./{sub_folder}/{file_name}"
file_path(folder_name, file_name) == <<".", "/", folder_name, "/">> \o file_name

isfile_never(path) == FALSE

\* os.path.isfile(file_path)
isfile(path) == folder.exists /\ path \in folder.files

\* f"{self.area_block}_googlemaps_scrape.csv"
scrape_file_name(area_block) ==
    <<area_block, "_", "googlemaps", "_", "scrape", ".csv">>

\* scrape_area: both passes have returned; union_dataframes, then save_csv
\* is entered
SaveStart ==
    /\ pc = "returned"
    /\ walk.radius_type = "small"
    /\ save' = [save EXCEPT !.caller = "scrape_area",
                            !.file_name = scrape_file_name(self.area_block),
                            !.i = 0]
    /\ pc' = "saving"
    /\ UNCHANGED <<row, self, err, walk, req, nodes, calls, df_temp, area_df,
                   call, result, passes, searches, folder>>

\* save_csv, a turn of the loop that finds the file: the name is renumbered
SaveRename ==
    /\ pc = "saving"
    /\ isfile(file_path(sub_folder, save.file_name))
    /\ save' = [save EXCEPT !.i = save.i + 1,
                            !.file_name = re_sub(save.file_name, save.i + 1)]
    /\ UNCHANGED <<pc, row, self, err, walk, req, nodes, calls, df_temp,
                   area_df, call, result, passes, searches, folder>>

\* save_csv, the turn of the loop that does not find the file: the frame is
\* written, after os.makedirs when the folder is missing, and the name is
\* returned; GoogleMapsScraper.run uploads the file
SaveWrite ==
    /\ pc = "saving"
    /\ ~isfile(file_path(sub_folder, save.file_name))
    /\ LET path == file_path(sub_folder, save.file_name)
       IN  /\ folder' = [exists |-> TRUE, files |-> folder.files \cup {path}]
           /\ save' = [save EXCEPT
                         !.i = save.i + 1,
                         !.log = Append(save.log,
                                        [returned |-> save.file_name,
                                         wrote |-> path,
                                         existed |-> path \in folder.files,
                                         makedirs |-> ~folder.exists,
                                         turns |-> save.i + 1,
                                         before |-> folder.files])]
    /\ pc' = IF save.caller = "scrape_area" THEN "done" ELSE "save_idle"
    /\ UNCHANGED <<row, self, err, walk, req, nodes, calls, df_temp, area_df,
                   call, result, passes, searches>>

Walk ==
    \/ IterateRow
    \/ VisitNode
    \/ FirstRequest
    \/ NextPageRequest
    \/ ReturnNodeData
    \/ NodeDone
    \/ RowDone
    \/ WalkReturn

-----------------------------------------------------------------------------
(* The run of one row of the input sheet *)

BigRadii == {-1, 0, 1}

SearchTermCells ==
    { <<>>, <<" ">>, <<",", " ", ",">>, <<"a">>, <<"a", ",", "b">>,
      <<"a", ",", " ", "a">> }

Latitudes == {83, 85, 89, 90, 91}

Longitudes == {173, 177, 179, 180, 181}

CoordinateCells ==
    {[kind |-> "pair", val |-> <<lat, lon>>] :
        lat \in Latitudes, lon \in Longitudes}
    \cup {[kind |-> "not_numeric", val |-> None],
          [kind |-> "syntax", val |-> None],
          [kind |-> "scalar", val |-> 5]}

\* the scrapes folder at the start of a run: missing, or holding the file of
\* an earlier run of the area
RunFolders ==
    {NoFolder,
     [exists |-> TRUE,
      files |-> {file_path(sub_folder, scrape_file_name("block_1"))}]}

Rows ==
    [area_block : {"block_1"},
     country : {"DE"},
     big_radius_km : BigRadii,
     search_terms_comma_separated : SearchTermCells,
     upper_left_coordinates : CoordinateCells,
     lower_right_coordinates : CoordinateCells]

Init ==
    /\ pc = "start"
    /\ row \in Rows
    /\ self = NoSelf
    /\ err = None
    /\ walk = NoWalk
    /\ req = NoReq
    /\ nodes = <<>>
    /\ calls = 0
    /\ df_temp = <<>>
    /\ area_df = 0
    /\ call = None
    /\ result = None
    /\ passes = <<>>
    /\ searches = <<>>
    /\ folder \in RunFolders
    /\ save = NoSave

Next ==
    \/ Construct
    \/ ScrapeBig
    \/ ScrapeSmall
    \/ Walk
    \/ SaveStart
    \/ SaveRename
    \/ SaveWrite

Spec == Init /\ [][Next]_vars


-----------------------------------------------------------------------------
(* The node walk on its own: _iterate_through_nodes called on an object     *)
(* with any grid counts                                                    *)

WalkTerms == { <<>>, << <<"a">> >>, << <<"a">>, <<"b">> >> }

WalkStarts == { <<0, 0>>, <<88, 174>> }

InitWalk ==
    /\ pc = "walk_row"
    /\ row = None
    /\ \E r \in 0..MaxCount, c \in 0..MaxCount, terms \in WalkTerms :
          self = [NoSelf EXCEPT
                    !.area_block = "block_1", !.country = "DE",
                    !.big_radius_km = 1, !.diameter_km = 2,
                    !.small_radius_km = calculate_small_radius(2).val,
                    !.search_terms = terms,
                    !.amount_of_requests_per_row = c,
                    !.amount_of_requests_per_col = r]
    /\ err = None
    /\ \E start \in WalkStarts :
          walk = [NoWalk EXCEPT
                    !.radius_type = "big", !.radius_km = Scale,
                    !.start_latitude = start[1], !.start_longitude = start[2],
                    !.latitude = start[1], !.longitude = start[2],
                    !.scrape_node = start]
    /\ req = NoReq
    /\ nodes = <<>>
    /\ calls = 0
    /\ df_temp = <<>>
    /\ area_df = 0
    /\ call = None
    /\ result = None
    /\ passes = <<>>
    /\ searches = <<>>
    /\ folder = NoFolder
    /\ save = NoSave

SpecWalk == InitWalk /\ [][Walk]_vars

-----------------------------------------------------------------------------
(* The functions of the preprocessor called on their own, as the unit      *)
(* tests call them                                                         *)

Chars == {"a", "b", ",", " "}

Strings == UNION {[1..n -> Chars] : n \in 0..MaxLen}

UnitRadii == (-1)..(MaxDiameter \div 2)

RangeCoords ==
    {-91, -90, -89, 0, 89, 90, 91} \X {-181, -180, -179, 0, 179, 180, 181}

AreaCoords == {0, 3, 4, 5, 9, 91} \X {0, 3, 4, 5, 9, 181}

InitUnit ==
    /\ pc = "unit"
    /\ row = None
    /\ self = NoSelf
    /\ err = None
    /\ walk = NoWalk
    /\ req = NoReq
    /\ nodes = <<>>
    /\ calls = 0
    /\ df_temp = <<>>
    /\ area_df = 0
    /\ call = [fn |-> None, args |-> <<>>]
    /\ result = None
    /\ passes = <<>>
    /\ searches = <<>>
    /\ folder = NoFolder
    /\ save = NoSave

Called(fn, args, out) ==
    /\ pc' = "unit_done"
    /\ call' = [fn |-> fn, args |-> args]
    /\ result' = out
    /\ UNCHANGED <<row, self, err, walk, req, nodes, calls, df_temp, area_df,
                   passes, searches, folder, save>>

\* InputFilePreprocessor(big_radius_km).calculate_small_radius()
Call_calculate_small_radius ==
    /\ pc = "unit"
    /\ \E big_radius_km \in UnitRadii :
           Called("calculate_small_radius", <<big_radius_km>>,
                  calculate_small_radius(
                      InputFilePreprocessor(big_radius_km).diameter_km))

Call_validate_amount_of_requests ==
    /\ pc = "unit"
    /\ \E geodesic_distance \in 0..MaxKm, diameter \in (-1)..MaxDiameter :
           Called("validate_amount_of_requests", <<geodesic_distance, diameter>>,
                  validate_amount_of_requests(geodesic_distance, diameter))

\* args: the two corners, the diameter of the preprocessor and the two
\* distances geopy measured
Call_calculate_amount_of_requests ==
    /\ pc = "unit"
    /\ \E big_radius_km \in UnitRadii, ul \in AreaCoords, lr \in AreaCoords :
           LET ur == <<ul[1], lr[2]>>
               diameter_km == InputFilePreprocessor(big_radius_km).diameter_km
           IN  \E w \in geodesic(ul, ur), l \in geodesic(lr, ur) :
                   Called("calculate_amount_of_requests",
                          <<ul, lr, diameter_km, w, l>>,
                          calculate_amount_of_requests(diameter_km, w, l))

Call_validate_coordinates_position ==
    /\ pc = "unit"
    /\ \E ul \in RangeCoords, lr \in RangeCoords :
           Called("validate_coordinates_position", <<ul, lr>>,
                  validate_coordinates_position(ul, lr))

Call_search_terms_to_list ==
    /\ pc = "unit"
    /\ \E search_terms \in Strings :
           Called("search_terms_to_list", <<search_terms>>,
                  search_terms_to_list(search_terms))

CursorStarts == {1, 7}

CursorNodes == {<<1, 1>>, <<3, 5>>}

Call_get_longitude_in_iteration ==
    /\ pc = "unit"
    /\ \E start_longitude \in CursorStarts, node \in CursorNodes,
          diameter_km \in 1..MaxDiameter, column_number \in 0..MaxCount :
           Called("get_longitude_in_iteration",
                  <<start_longitude, node, diameter_km, column_number>>,
                  Return(get_longitude_in_iteration(
                             start_longitude, node, diameter_km, column_number)))

Call_get_latitude_in_iteration ==
    /\ pc = "unit"
    /\ \E start_latitude \in CursorStarts, node \in CursorNodes,
          diameter_km \in 1..MaxDiameter, row_number \in 0..MaxCount :
           Called("get_latitude_in_iteration",
                  <<start_latitude, node, diameter_km, row_number>>,
                  Return(get_latitude_in_iteration(
                             start_latitude, node, diameter_km, row_number)))

NextUnit ==
    \/ Call_get_longitude_in_iteration
    \/ Call_get_latitude_in_iteration
    \/ Call_calculate_small_radius
    \/ Call_validate_amount_of_requests
    \/ Call_calculate_amount_of_requests
    \/ Call_validate_coordinates_position
    \/ Call_search_terms_to_list

SpecUnit == InitUnit /\ [][NextUnit]_vars


-----------------------------------------------------------------------------
(* save_csv called on its own, several times in a row into one folder      *)

\* the file names handed to save_csv
SaveNames ==
    { <<"a", ".csv">>,
      <<"a", "_", "1", ".csv">>,
      <<"b", "2", ".csv">>,
      <<"a", ".csv", "b", ".csv">> }

\* the folder before the first call: missing, empty, or with earlier files
SaveFolders ==
    {NoFolder,
     [exists |-> TRUE, files |-> {}],
     [exists |-> TRUE,
      files |-> {file_path(sub_folder, <<"a", ".csv">>),
                 file_path(sub_folder, <<"a", "_", "2", ".csv">>)}]}

InitSave ==
    /\ pc = "save_idle"
    /\ row = None
    /\ self = NoSelf
    /\ err = None
    /\ walk = NoWalk
    /\ req = NoReq
    /\ nodes = <<>>
    /\ calls = 0
    /\ df_temp = <<>>
    /\ area_df = 0
    /\ call = None
    /\ result = None
    /\ passes = <<>>
    /\ searches = <<>>
    /\ folder \in SaveFolders
    /\ save = NoSave

\* save_csv(scrape_df, file_name, sub_folder) is called
SaveCall ==
    /\ pc = "save_idle"
    /\ Len(save.log) < MaxSaves
    /\ \E file_name \in SaveNames :
          save' = [save EXCEPT !.caller = "unit",
                               !.file_name = file_name,
                               !.i = 0]
    /\ pc' = "saving"
    /\ UNCHANGED <<row, self, err, walk, req, nodes, calls, df_temp, area_df,
                   call, result, passes, searches, folder>>

NextSave ==
    \/ SaveCall
    \/ SaveRename
    \/ SaveWrite

\* a call that has begun runs on: the loop of save_csv is sequential code
SpecSave ==
    InitSave /\ [][NextSave]_vars /\ WF_vars(SaveRename \/ SaveWrite)

-----------------------------------------------------------------------------
(* Properties *)

\* the faults of a row of the input sheet, read off the row itself
RowCornersParsed ==
    /\ row.upper_left_coordinates.kind = "pair"
    /\ row.lower_right_coordinates.kind = "pair"

RowUpperLeft == row.upper_left_coordinates.val

RowLowerRight == row.lower_right_coordinates.val

OutOfRange(coords) ==
    \/ coords[1] <= -90
    \/ coords[1] >= 90
    \/ coords[2] <= -180
    \/ coords[2] >= 180

RowOutOfRange ==
    RowCornersParsed /\ (OutOfRange(RowUpperLeft) \/ OutOfRange(RowLowerRight))

RowCrossed ==
    /\ RowCornersParsed
    /\ \/ RowLowerRight[1] > RowUpperLeft[1]
       \/ RowUpperLeft[2] > RowLowerRight[2]

RowTooSmall ==
    /\ RowCornersParsed
    /\ row.big_radius_km > 0
    /\ \/ Abs(RowUpperLeft[1] - RowLowerRight[1]) < 4 * row.big_radius_km
       \/ Abs(RowUpperLeft[2] - RowLowerRight[2]) < 4 * row.big_radius_km

RowNoSearchTerms ==
    \A i \in 1..Len(row.search_terms_comma_separated) :
        row.search_terms_comma_separated[i] \in {",", " "}

RowInvalid ==
    \/ row.big_radius_km <= 0
    \/ RowNoSearchTerms
    \/ ~RowCornersParsed
    \/ RowOutOfRange
    \/ RowCrossed
    \/ RowTooSmall

ValidationErrors ==
    {ErrRadius, ErrSearchTerms, ErrNotFloats, ErrNoComma, ErrSubscript,
     ErrGeopy, ErrLatitude, ErrLongitude, ErrCrossedLatitude,
     ErrCrossedLongitude, ErrTooSmall}

BoundingBoxErrors == {ErrCrossedLatitude, ErrCrossedLongitude}

CoordinateErrors == {ErrLatitude, ErrLongitude}

WalkStates == {"walk_row", "walk_col", "walk_terms", "walk_pages", "returned"}

\* C1: when a pass of the node walk returns, it has visited exactly r * c
\* nodes, r the count of rows and c the count of columns; with r = 0 or
\* c = 0 the walk visits no node, issues no request and never fails.
C1_NodeCount ==
    /\ pc = "returned" =>
          Len(nodes) = self.amount_of_requests_per_col
                       * self.amount_of_requests_per_row
    /\ (self.amount_of_requests_per_col = 0
        \/ self.amount_of_requests_per_row = 0) =>
          /\ nodes = <<>>
          /\ calls = 0
          /\ pc \in {"walk_row", "walk_col", "returned"}

C1_Witness ==
    /\ pc = "returned"
    /\ self.amount_of_requests_per_col = 2
    /\ self.amount_of_requests_per_row = 3
    /\ Len(nodes) = 6

\* C2: a row with any fault (radius <= 0, no search term, unparsable
\* coordinates, coordinate out of range, crossed corners, area smaller than
\* two diameters on an axis) never has a search call issued, and a run that
\* failed in a validation has issued no search call.
C2_FailFast ==
    /\ RowInvalid => calls = 0
    /\ (pc = "failed" /\ err \in ValidationErrors) => calls = 0

C2_Witness ==
    /\ pc = "failed"
    /\ err = ErrCrossedLongitude
    /\ self.amount_of_requests_per_row >= 2
    /\ self.amount_of_requests_per_col >= 2
    /\ calls = 0

\* a row whose only fault are the crossed corners
RowCrossedOnly ==
    /\ RowCrossed
    /\ row.big_radius_km > 0
    /\ ~RowNoSearchTerms
    /\ ~RowOutOfRange
    /\ ~RowTooSmall

\* C3 as claimed: a box with crossed corners (and no other fault) is never
\* accepted by AreaScraper.__init__; construction fails with the
\* invalid-bounding-box error.
C3_RejectedAtConstruction ==
    (RowCrossedOnly /\ pc # "start") =>
        (pc = "failed" /\ err \in BoundingBoxErrors /\ self = NoSelf)

\* C3 as amended: AreaScraper.__init__ does not check the corner ordering.
\* A box with crossed corners is never walked and never searched; when the
\* crossed corners are the only fault of the row, construction succeeds, and
\* the only failure is the invalid-bounding-box error, raised by
\* validate_coordinates_position at the start of the big pass.
C3_RejectedBeforeWalk ==
    /\ RowCrossed => (pc \notin WalkStates \cup {"done"} /\ calls = 0
                      /\ nodes = <<>>)
    /\ RowCrossedOnly =>
          /\ pc \in {"start", "constructed", "failed"}
          /\ pc = "failed" =>
                /\ err \in BoundingBoxErrors
                /\ self # NoSelf
                /\ walk = NoWalk

C3_Witness ==
    /\ RowCrossedOnly
    /\ pc = "failed"
    /\ err = ErrCrossedLatitude
    /\ self # NoSelf

\* C4: validate_coordinates_position raises the coordinate-range error
\* exactly when a corner has a latitude outside (-90, 90) or a longitude
\* outside (-180, 180), the bounds included, also when the corners are
\* crossed.
C4_RangeBeforeOrdering ==
    call.fn = "validate_coordinates_position" =>
        ((OutOfRange(call.args[1]) \/ OutOfRange(call.args[2]))
            <=> (result.kind = "raise" /\ result.exc \in CoordinateErrors))

C4_Witness ==
    /\ call.fn = "validate_coordinates_position"
    /\ call.args = << <<0, -180>>, <<89, -179>> >>
    /\ result = Raise(ErrLongitude)

\* C5: for a positive diameter, validate_amount_of_requests raises the
\* too-small error exactly when fewer than two whole diameters fit into the
\* distance, and returns otherwise (at distance = 2 * diameter it returns).
C5_MinimumCoverage ==
    (call.fn = "validate_amount_of_requests" /\ call.args[2] > 0) =>
        IF call.args[1] \div call.args[2] < 2
        THEN result = Raise(ErrTooSmall)
        ELSE result = Return(None)

C5_Witness ==
    /\ call.fn = "validate_amount_of_requests"
    /\ call.args = <<6, 3>>
    /\ result = Return(None)

\* C6: calculate_amount_of_requests raises the too-small error when the
\* width or the length is shorter than two diameters; whenever it returns,
\* it returns (floor(width/diameter), floor(length/diameter)) and both
\* counts are at least 2.
C6_GridCounts ==
    call.fn = "calculate_amount_of_requests" =>
        LET diameter_km == call.args[3]
            width == call.args[4]
            length == call.args[5]
        IN  /\ result.kind = "return" =>
                /\ diameter_km > 0
                /\ result.val[1] >= 2
                /\ result.val[2] >= 2
                /\ result.val[1] * diameter_km <= width.val
                /\ (result.val[1] + 1) * diameter_km > width.val
                /\ result.val[2] * diameter_km <= length.val
                /\ (result.val[2] + 1) * diameter_km > length.val
            /\ (/\ diameter_km > 0
                /\ width.kind = "return"
                /\ length.kind = "return"
                /\ (width.val < 2 * diameter_km \/ length.val < 2 * diameter_km))
               => result = Raise(ErrTooSmall)

C6_Witness ==
    /\ call.fn = "calculate_amount_of_requests"
    /\ call.args[1] = <<9, 0>>
    /\ call.args[2] = <<0, 5>>
    /\ call.args[3] = 2
    /\ result = Return(<<2, 4>>)

\* C7: calculate_small_radius raises the radius error for every big radius
\* <= 0 and returns a radius for every big radius > 0.
C7_RadiusCheck ==
    call.fn = "calculate_small_radius" =>
        IF call.args[1] <= 0
        THEN result = Raise(ErrRadius)
        ELSE result.kind = "return" /\ result.val > 0
             /\ result.val < call.args[1] * Scale

C7_Witness ==
    /\ call.fn = "calculate_small_radius"
    /\ call.args = <<0>>
    /\ result = Raise(ErrRadius)

\* the search terms of a string, read off the positions of its characters:
\* a field starts at the first position and behind every comma, ends before
\* the next comma, and is a term when it holds a character that is not
\* white; the term is the text between its first and its last such character
FieldStarts(s) == {1} \cup {i + 1 : i \in {j \in 1..Len(s) : s[j] = ","}}

FieldEnd(s, a) ==
    IF \E i \in a..Len(s) : s[i] = ","
    THEN (CHOOSE i \in a..Len(s) :
              s[i] = "," /\ \A j \in a..(i - 1) : s[j] # ",") - 1
    ELSE Len(s)

Inked(s, a) == {i \in a..FieldEnd(s, a) : s[i] \notin Whitespace}

TermStarts(s) == {a \in FieldStarts(s) : Inked(s, a) # {}}

Min(S) == CHOOSE x \in S : \A y \in S : x <= y

Max(S) == CHOOSE x \in S : \A y \in S : x >= y

TermAt(s, a) == SubSeq(s, Min(Inked(s, a)), Max(Inked(s, a)))

ExpectedTerms(s) ==
    [k \in 1..Cardinality(TermStarts(s)) |->
        TermAt(s, CHOOSE a \in TermStarts(s) :
                      Cardinality({b \in TermStarts(s) : b < a}) = k - 1)]

\* C8: whenever search_terms_to_list returns, it returns the comma-separated
\* entries of its input, trimmed, without the empty and the white-only
\* entries, in the order of the input; it raises only for an input without
\* any entry.
C8_TrimmedInOrder ==
    call.fn = "search_terms_to_list" =>
        IF result.kind = "return"
        THEN result.val = ExpectedTerms(call.args[1])
        ELSE ExpectedTerms(call.args[1]) = <<>>

C8_Witness ==
    /\ call.fn = "search_terms_to_list"
    /\ call.args[1] = <<"b", " ", ",", ",", "a">>
    /\ result = Return(<< <<"b">>, <<"a">> >>)

\* C9 as claimed: no term appears more than once in the list
\* search_terms_to_list returns.
C9_Deduplicated ==
    (call.fn = "search_terms_to_list" /\ result.kind = "return") =>
        \A i, j \in 1..Len(result.val) :
            result.val[i] = result.val[j] => i = j

\* C9 as amended: the list search_terms_to_list returns is not
\* deduplicated; every term appears in it as often as the input has an
\* entry that reads as this term.
C9_DuplicatesKept ==
    (call.fn = "search_terms_to_list" /\ result.kind = "return") =>
        LET s == call.args[1]
        IN  /\ Len(result.val) = Cardinality(TermStarts(s))
            /\ \A a \in TermStarts(s) :
                  Cardinality({i \in 1..Len(result.val) :
                                  result.val[i] = TermAt(s, a)})
                  = Cardinality({b \in TermStarts(s) :
                                  TermAt(s, b) = TermAt(s, a)})

C9_Witness ==
    /\ call.fn = "search_terms_to_list"
    /\ call.args[1] = <<"a", ",", "b", ",", "a">>
    /\ result = Return(<< <<"a">>, <<"b">>, <<"a">> >>)

\* C10: search_terms_to_list never returns an empty list; an input without
\* any term (empty, white only, only commas and white) raises the
\* empty-search-terms error.
C10_NeverEmpty ==
    call.fn = "search_terms_to_list" =>
        /\ result.kind = "return" => result.val # <<>>
        /\ TermStarts(call.args[1]) = {} => result = Raise(ErrSearchTerms)


\* C11: a search of one node for one term issues at most 3 places_nearby
\* calls, whatever page tokens the responses carry; when a fourth call would
\* be due, the search raises instead of issuing it.
C11_AtMostThreeCalls ==
    /\ calls <= 3
    /\ pc = "walk_pages" => (calls = req.i /\ req.i <= 3)
    /\ (pc = "failed" /\ err = ErrTooManyRequests) =>
          (calls = 3 /\ req.i = 4 /\ Len(req.api_result_df) = 3)

C11_Witness ==
    /\ pc = "failed"
    /\ err = ErrTooManyRequests
    /\ calls = 3
    /\ req.next_page = "results"

\* C12: with index 0 get_longitude_in_iteration and get_latitude_in_iteration
\* return the start cursor as it is, whatever the node and the diameter; with
\* an index >= 1 they return the coordinate one diameter east, respectively
\* south, of the node, whatever the start cursor.
C12_IterationCursor ==
    /\ call.fn = "get_longitude_in_iteration" =>
          IF call.args[4] = 0
          THEN result = Return(call.args[1])
          ELSE result = Return(call.args[2][2] + call.args[3])
    /\ call.fn = "get_latitude_in_iteration" =>
          IF call.args[4] = 0
          THEN result = Return(call.args[1])
          ELSE result = Return(call.args[2][1] - call.args[3])

C12_Witness ==
    /\ call.fn = "get_longitude_in_iteration"
    /\ call.args = <<1, <<3, 5>>, 2, 1>>
    /\ result = Return(7)

\* the upper left corner moved km kilometres to the south and to the east
UpperLeftInset(km) ==
    <<self.upper_left_coords[1] - km, self.upper_left_coords[2] + km>>

GridNodes == self.amount_of_requests_per_col * self.amount_of_requests_per_row

\* C13: the big pass starts at the upper left corner inset by the big radius
\* to the south and to the east and queries with the big radius; the small
\* pass starts at the corner inset by the diameter and queries with the small
\* radius; both passes step by the diameter and visit the same count of
\* nodes, and the big pass has returned before the small pass starts.
C13_TwoPasses ==
    /\ walk.radius_type = "big" =>
          /\ <<walk.start_latitude, walk.start_longitude>>
                = UpperLeftInset(self.big_radius_km)
          /\ walk.radius_km = self.big_radius_km * Scale
          /\ passes = IF pc \in {"returned", "failed"} /\ Len(passes) = 1
                      THEN <<[radius_type |-> "big", nodes |-> nodes,
                              area_df |-> area_df]>>
                      ELSE <<>>
    /\ walk.radius_type = "small" =>
          /\ <<walk.start_latitude, walk.start_longitude>>
                = UpperLeftInset(self.diameter_km)
          /\ walk.radius_km = self.small_radius_km
          /\ Len(passes) >= 1
          /\ passes[1].radius_type = "big"
          /\ Len(passes[1].nodes) = GridNodes
          /\ passes[1].area_df = GridNodes * Len(self.search_terms)
    /\ pc = "walk_pages" =>
          /\ req.params.radius = walk.radius_km * 1000
          /\ req.params.location = walk.scrape_node
    /\ (walk.radius_type # None /\ Len(nodes) >= 2) =>
          /\ nodes[1] = <<walk.start_latitude, walk.start_longitude>>
          /\ nodes[2] = <<walk.start_latitude,
                          walk.start_longitude + self.diameter_km>>
    /\ (pc = "returned" /\ walk.radius_type # None) => Len(nodes) = GridNodes
    /\ Len(passes) = 2 =>
          /\ passes[2].radius_type = "small"
          /\ Len(passes[2].nodes) = Len(passes[1].nodes)

C13_Witness ==
    /\ Len(passes) = 2
    /\ self.big_radius_km = 1
    /\ passes[1].nodes[1] = UpperLeftInset(1)
    /\ passes[2].nodes[1] = UpperLeftInset(2)
    /\ Len(passes[2].nodes) >= 4
    /\ passes[2].area_df >= 4

\* the radius a pass queries with
PassRadius ==
    IF walk.radius_type = "big" THEN self.big_radius_km * Scale
    ELSE self.small_radius_km

\* C14: in each pass the searches are the product of the visited nodes and
\* the search terms, all terms of a node in list order before the next node,
\* each pair once; every record of a search carries the coordinate of that
\* node, the radius of the pass, that term, and the area_block and country of
\* the area.
C14_NodeTermProduct ==
    LET T == Len(self.search_terms)
    IN  /\ \A k \in 1..Len(searches) :
              /\ searches[k].node = nodes[((k - 1) \div T) + 1]
              /\ searches[k].search_term = self.search_terms[((k - 1) % T) + 1]
        /\ (pc \in {"walk_row", "walk_col", "returned"}
            /\ walk.radius_type # None) =>
              /\ Len(searches) = Len(nodes) * T
              /\ area_df = Len(searches)
        /\ (pc \in WalkStates /\ area_df > 0) =>
              /\ area_df <= Len(searches)
              /\ df_temp # <<>>
              /\ \A n \in 1..Len(df_temp) :
                    /\ df_temp[n].lat_long = searches[area_df].node
                    /\ df_temp[n].search_term = searches[area_df].search_term
                    /\ df_temp[n].radius_size_km = PassRadius
                    /\ df_temp[n].area_block = row.area_block
                    /\ df_temp[n].country = row.country

C14_Witness ==
    /\ pc = "returned"
    /\ walk.radius_type = "small"
    /\ Len(nodes) = 4
    /\ Len(searches) = 8
    /\ searches[7].search_term # searches[8].search_term
    /\ df_temp[1].lat_long = nodes[4]
    /\ df_temp[1].search_term = self.search_terms[2]

\* C15: a search of a node fetches every page: whenever a response carries a
\* next_page_token, a follow-up call is issued with that token and its
\* records are appended; a search whose results span k <= 3 pages makes
\* exactly k calls and returns the records of all k pages.
C15_AllPagesFetched ==
    [][/\ (pc = "walk_pages" /\ pc' = "walk_terms" /\ req.i < 3) =>
             /\ req.request.next_page_token = None
             /\ Len(df_temp') = calls
       /\ (pc = "walk_pages" /\ pc' = "walk_pages") =>
             /\ req.request.next_page_token # None
             /\ req'.params.page_token = req.request.next_page_token
       /\ (pc = "walk_pages" /\ pc' = "failed") =>
             /\ calls = 3
             /\ req.request.next_page_token # None]_vars

\* C16: the walk is row-major over a rectangular lattice: floor(length /
\* diameter) rows southward in the outer loop, floor(width / diameter)
\* columns eastward in the inner loop; the node of row i and column j lies i
\* diameters south and j diameters east of the start node, so the nodes of a
\* row share their latitude and every row begins at the start longitude.
C16_RowMajorLattice ==
    walk.radius_type # None =>
        LET per_row == self.amount_of_requests_per_row
            per_col == self.amount_of_requests_per_col
            length == self.upper_left_coords[1] - self.lower_right_coords[1]
            width == self.lower_right_coords[2] - self.upper_left_coords[2]
        IN  /\ per_col = length \div self.diameter_km
            /\ per_row = width \div self.diameter_km
            /\ Len(nodes) <= per_col * per_row
            /\ pc = "returned" => Len(nodes) = per_col * per_row
            /\ \A k \in 1..Len(nodes) :
                  nodes[k] = <<walk.start_latitude
                                 - ((k - 1) \div per_row) * self.diameter_km,
                               walk.start_longitude
                                 + ((k - 1) % per_row) * self.diameter_km>>
            /\ pc \in {"walk_terms", "walk_pages"} =>
                  /\ Len(nodes) = walk.row_number * per_row
                                  + walk.column_number + 1
                  /\ walk.scrape_node = nodes[Len(nodes)]

C16_Witness ==
    /\ pc = "returned"
    /\ self.amount_of_requests_per_col = 3
    /\ self.amount_of_requests_per_row = 2
    /\ Len(nodes) = 6
    /\ nodes[3] = <<walk.start_latitude - self.diameter_km,
                    walk.start_longitude>>
    /\ nodes[6] = <<walk.start_latitude - 2 * self.diameter_km,
                    walk.start_longitude + self.diameter_km>>

\* a row whose box is too small and which has no fault outside its box
RowTooSmallBox ==
    /\ RowTooSmall
    /\ row.big_radius_km > 0
    /\ ~RowNoSearchTerms

\* C17 as claimed: the bounding box is validated before the radii are
\* derived and the grid is computed: a box that is invalid (crossed corners
\* or a coordinate out of range) and too small is reported with the
\* bounding-box or coordinate error, not with the insufficient-area error.
C17_BoxValidatedFirst ==
    (RowTooSmallBox /\ (RowCrossed \/ RowOutOfRange) /\ pc = "failed") =>
        err \in BoundingBoxErrors \cup CoordinateErrors

\* C17 as amended: the radii are derived and the grid is computed in
\* AreaScraper.__init__, the bounding box is validated afterwards, at the
\* start of a pass. A box with crossed corners, all coordinates in range,
\* that is too small is reported with the insufficient-area error at
\* construction; a bounding-box or coordinate error is only ever reported
\* for a constructed object, whose radii and grid counts are computed.
C17_GridBeforeBox ==
    /\ (RowTooSmallBox /\ RowCrossed /\ ~RowOutOfRange) =>
          /\ pc \in {"start", "failed"}
          /\ pc = "failed" => (err = ErrTooSmall /\ self = NoSelf)
    /\ (RowTooSmallBox /\ RowOutOfRange /\ pc = "failed") =>
          err \in {ErrTooSmall, ErrGeopy} \cup CoordinateErrors
    /\ (pc = "failed" /\ err \in {ErrRadius, ErrTooSmall}) => self = NoSelf
    /\ (pc = "failed" /\ err \in BoundingBoxErrors \cup CoordinateErrors) =>
          /\ self # NoSelf
          /\ self.small_radius_km > 0
          /\ self.amount_of_requests_per_row >= 2
          /\ self.amount_of_requests_per_col >= 2
          /\ walk = NoWalk

C17_Witness ==
    /\ RowTooSmallBox
    /\ RowCrossed
    /\ ~RowOutOfRange
    /\ pc = "failed"
    /\ err = ErrTooSmall

\* the nodes the big pass of the area has visited
BigPassNodes == {passes[1].nodes[k] : k \in 1..Len(passes[1].nodes)}

\* the four points one big radius north or south and one big radius west or
\* east of a node
Corners(node) ==
    {<<node[1] + ns * self.big_radius_km, node[2] + we * self.big_radius_km>> :
        ns \in {-1, 1}, we \in {-1, 1}}

\* C19 as claimed: every node of the small pass lies at the centre of four
\* nodes of the big pass of the same area, in every grid of at least 2 rows
\* and 2 columns.
C19_EverySmallNodeCentred ==
    walk.radius_type = "small" =>
        \A k \in 1..Len(nodes) : Corners(nodes[k]) \subseteq BigPassNodes

\* C19 as amended: the small pass walks the same counts of rows and columns
\* as the big pass, so its node of row i and column j lies at the centre of
\* four big-pass nodes exactly when it is neither in the last row nor in the
\* last column; the nodes of the last row and of the last column have at
\* most two big-pass nodes among their four corners.
C19_InnerSmallNodesCentred ==
    walk.radius_type = "small" =>
        \A k \in 1..Len(nodes) :
            LET i == (k - 1) \div self.amount_of_requests_per_row
                j == (k - 1) % self.amount_of_requests_per_row
                inner == /\ i < self.amount_of_requests_per_col - 1
                         /\ j < self.amount_of_requests_per_row - 1
            IN  /\ inner <=> Corners(nodes[k]) \subseteq BigPassNodes
                /\ ~inner =>
                      Cardinality(Corners(nodes[k]) \cap BigPassNodes) <= 2

C19_Witness ==
    /\ walk.radius_type = "small"
    /\ pc = "returned"
    /\ Len(nodes) = 9
    /\ Corners(nodes[1]) \subseteq BigPassNodes
    /\ Corners(nodes[5]) \subseteq BigPassNodes
    /\ Corners(nodes[6]) \cap BigPassNodes = {passes[1].nodes[6],
                                              passes[1].nodes[9]}
    /\ Corners(nodes[9]) \cap BigPassNodes = {passes[1].nodes[9]}

\* what every finished call of save_csv has done
SavedWithoutOverwriting ==
    /\ \A k \in 1..Len(save.log) :
          /\ ~save.log[k].existed
          /\ save.log[k].wrote \notin save.log[k].before
          /\ save.log[k].wrote = file_path(sub_folder, save.log[k].returned)
          /\ save.log[k].wrote \in folder.files
          /\ save.log[k].before \subseteq folder.files
          /\ save.log[k].turns <= Cardinality(save.log[k].before) + 2
    /\ \A k, n \in 1..Len(save.log) :
          k # n => save.log[k].returned # save.log[n].returned
    /\ pc = "saving" => save.i <= Cardinality(folder.files) + 1

\* C18: save_csv never overwrites: in any sequence of calls into one folder
\* with names of csv files (names that hold ".csv", as the name scrape_area
\* passes) no call writes to a file that existed before it, the returned
\* names are pairwise distinct, each returned name is the name of the file the
\* call wrote, and every call returns, after at most two turns of the loop
\* more than there were files.
C18_NeverOverwrites ==
    /\ []SavedWithoutOverwriting
    /\ (pc = "saving") ~> (pc # "saving")

C18_Witness ==
    /\ pc = "save_idle"
    /\ Len(save.log) = 3
    /\ save.log[1].makedirs
    /\ save.log[1].returned = <<"a", ".csv">>
    /\ save.log[2].returned = <<"a", "_", "1", ".csv">>
    /\ save.log[3].returned = <<"a", "_", "2", ".csv">>
    /\ save.log[3].turns = 3

=============================================================================
